---- MODULE Spec2Model ----
(***************************************************************************)
(* Model of the Athkariapp data-migration scripts:                         *)
(*   scripts/compare_api.py        run_comparison (fuzzy matcher)          *)
(*   scripts/convert_adhkar.py     main (category reclassifier)            *)
(*   scripts/sync_official_data.py run_sync (ingestion from the API)       *)
(*   scripts/smart_deduplicate.py  smart_deduplicate                       *)
(*                                                                         *)
(* A text is a sequence of one-character strings.  Arabic letters and      *)
(* diacritics are transliterated one code point to one ASCII character;    *)
(* the table is given with the keyword lists below.                        *)
(***************************************************************************)
EXTENDS Integers, Sequences, FiniteSets, TLC

VARIABLES
    \* clean_text, applied to a pair of texts
    ct_pc, ct_a, ct_b, ct_out,
    \* run_comparison (compare_api.py)
    cmp_pc,          \* "fetch", "items", "done", "raised" ("idle": not run)
    local_all,       \* daily_data + hisn_data
    cmp_cat,         \* position in mappings of the category at hand
    remote_content,  \* what fetch_json returned for it
    r_idx,           \* number of its items already compared
    cmp_seen,        \* number of remote items compared in this run
    scan,            \* found, best_match, best_ratio after the last item
    report_items,
    report_file,     \* the report as written, or NoFile
    \* main (convert_adhkar.py)
    conv_pc,         \* "cat", "items", "split", "done" ("idle": not run)
    source_data,     \* the list loaded from adhkar.json
    conv_cat,        \* position in source_data of the category at hand
    conv_item,       \* number of its items already converted
    conv_base,       \* length of all_athkar when that category began
    morning_index, evening_index,
    all_athkar,
    conv_file,       \* the collection as written, or NoFile
    \* the category-1 loop body of main, applied to one item
    cls_pc, cls_text, cls_out,
    \* run_sync (sync_official_data.py)
    sync_pc,         \* "index", "cat", "done", "aborted" ("idle": not run)
    categories,      \* the category list of the index document
    sync_cat,        \* position in categories of the category at hand
    sync_content,    \* what fetch_json returned for the last category
    sync_seen,       \* number of remote items ingested in this run
    final_daily, final_hisn_duas, final_hisn_categories,
    sync_files,      \* daily_athkar.json and hisn.json as written
    \* smart_deduplicate (smart_deduplicate.py)
    dd_pc,           \* "ready" ("idle": not run)
    daily_file,      \* the athkar list of daily_athkar.json
    dd_prev,         \* the list the last run read
    dd_runs          \* number of runs so far

ctVars == <<ct_pc, ct_a, ct_b, ct_out>>
cmpVars == <<cmp_pc, local_all, cmp_cat, remote_content, r_idx, cmp_seen, scan,
             report_items, report_file>>
convVars == <<conv_pc, source_data, conv_cat, conv_item, conv_base,
              morning_index, evening_index, all_athkar, conv_file,
              cls_pc, cls_text, cls_out>>
syncVars == <<sync_pc, categories, sync_cat, sync_content, sync_seen, final_daily,
              final_hisn_duas, final_hisn_categories, sync_files>>
ddVars == <<dd_pc, daily_file, dd_prev, dd_runs>>

vars == <<ctVars, cmpVars, convVars, syncVars, ddVars>>

NoFile == [written |-> FALSE, items |-> <<>>]

CleanIdle ==
    /\ ct_pc = "idle" /\ ct_a = <<>> /\ ct_b = <<>> /\ ct_out = <<>>

ConvertIdle ==
    /\ conv_pc = "idle" /\ source_data = <<>> /\ conv_cat = 0 /\ conv_item = 0
    /\ conv_base = 0
    /\ morning_index = 0 /\ evening_index = 0 /\ all_athkar = <<>>
    /\ conv_file = NoFile
    /\ cls_pc = "idle" /\ cls_text = <<>> /\ cls_out = <<>>

SyncIdle ==
    /\ sync_pc = "idle" /\ categories = <<>> /\ sync_cat = 0 /\ sync_seen = 0
    /\ sync_content = [ok |-> FALSE, items |-> <<>>]
    /\ final_daily = <<>> /\ final_hisn_duas = <<>>
    /\ final_hisn_categories = <<>>
    /\ sync_files = [written |-> FALSE, daily |-> <<>>, categories |-> <<>>,
                     duas |-> <<>>]

DedupIdle ==
    /\ dd_pc = "idle" /\ daily_file = <<>> /\ dd_prev = <<>> /\ dd_runs = 0

-----------------------------------------------------------------------------
(* Bounds of the model *)

\* longest raw text handed to clean_text in SpecClean
MaxTextLen == 3
\* longest text an edit may grow to in SpecClean
MaxEditLen == 4
\* most local items (daily and hisn together) in SpecCompare
MaxLocal == 2
\* most remote items returned over one run of run_comparison
MaxRemote == 2
\* most raw items in the source document of convert_adhkar.main
MaxConvItems == 3
\* most pieces a text is put together from in SpecClassify
MaxFragments == 2
\* most categories in the index document of run_sync
MaxSyncCats == 2
\* most items returned over one run of run_sync
MaxSyncItems == 2
\* most records in daily_athkar.json before smart_deduplicate runs
MaxDaily == 3
\* most runs of smart_deduplicate in a row
MaxDedupRuns == 2

-----------------------------------------------------------------------------
(* Characters and generic sequence helpers *)

\* the decorative end-of-ayah glyph U+06DD, written '۝' in the source
Marker == "#"
\* characters str.split() and str.strip() treat as whitespace
Whitespace == {" ", "\n"}

Min(S) == CHOOSE x \in S : \A y \in S : x <= y
Max(S) == CHOOSE x \in S : \A y \in S : x >= y

SeqsUpTo(S, n) == UNION {[1..k -> S] : k \in 0..n}

\* Python slice s[:n]
Prefix(s, n) == IF Len(s) <= n THEN s ELSE SubSeq(s, 1, n)

\* Python "kw in text" for strings
Contains(text, kw) ==
    \E i \in 0..(Len(text) - Len(kw)) :
        \A k \in 1..Len(kw) : text[i + k] = kw[k]

-----------------------------------------------------------------------------
(* clean_text: compare_api.py:18-20 and sync_official_data.py:15-18 *)

\* text.replace('۝', '')
RemoveMarker(text) == SelectSeq(text, LAMBDA c : c # Marker)

\* str.split(): the maximal runs of non-whitespace characters, in order
Split(text) ==
    LET n == Len(text)
        inWord(i) == text[i] \notin Whitespace
        starts == {i \in 1..n : inWord(i) /\ (IF i = 1 THEN TRUE ELSE ~inWord(i - 1))}
        start(k) == CHOOSE s \in starts : Cardinality({t \in starts : t <= s}) = k
        end(s) == LET gaps == {t \in s..n : ~inWord(t)}
                  IN IF gaps = {} THEN n ELSE Min(gaps) - 1
    IN [k \in 1..Cardinality(starts) |-> SubSeq(text, start(k), end(start(k)))]

\* " ".join(words)
RECURSIVE Join(_)
Join(words) ==
    IF words = <<>> THEN <<>>
    ELSE IF Len(words) = 1 THEN words[1]
    ELSE words[1] \o <<" ">> \o Join(Tail(words))

\* str.strip(): drop leading and trailing whitespace
RECURSIVE LStrip(_)
LStrip(text) ==
    IF text # <<>> /\ text[1] \in Whitespace THEN LStrip(Tail(text)) ELSE text

RECURSIVE RStrip(_)
RStrip(text) ==
    IF text # <<>> /\ text[Len(text)] \in Whitespace
    THEN RStrip(SubSeq(text, 1, Len(text) - 1))
    ELSE text

Strip(text) == RStrip(LStrip(text))

\* a plausible slip: the whitespace is normalised but the marker is kept
clean_text_keeps_marker(text) == Strip(Join(Split(text)))

\* compare_api.py: " ".join(text.replace('۝', '').split()).strip()
clean_text(text) == Strip(Join(Split(RemoveMarker(text))))

\* sync_official_data.py: the same, after "if not text: return ''"
clean_text_sync(text) ==
    IF text = <<>> THEN <<>>
    ELSE Strip(Join(Split(RemoveMarker(text))))

-----------------------------------------------------------------------------
(* similar: compare_api.py:15-16, SequenceMatcher(None, a, b).ratio().
   Indices are Python's (0-based): the i-th element of a is a[i + 1]. *)

\* the number of occurrences of c in b
Occurrences(b, c) == Cardinality({j \in 1..Len(b) : b[j] = c})

\* autojunk: in a second sequence of 200 or more elements, the elements seen
\* more than len(b) // 100 + 1 times are left out of the index b2j
Popular(b) ==
    IF Len(b) >= 200
    THEN {c \in {b[j] : j \in 1..Len(b)} : Occurrences(b, c) > (Len(b) \div 100) + 1}
    ELSE {}

\* j2len: the length of the longest run of indexed elements that ends with
\* a[i] and b[j] inside the window that starts at alo, blo
RunLen(a, b, pop, alo, blo, i, j) ==
    LET lim == Min({i - alo + 1, j - blo + 1})
        stop == {t \in 0..(lim - 1) :
                    a[i - t + 1] # b[j - t + 1] \/ b[j - t + 1] \in pop}
    IN IF stop = {} THEN lim ELSE Min(stop)

\* extend the block to the left while the elements before it agree
ExtendBack(a, b, alo, blo, m) ==
    LET lim == Min({m.i - alo, m.j - blo})
        stop == {t \in 1..lim : a[m.i - t + 1] # b[m.j - t + 1]}
        n == IF stop = {} THEN lim ELSE Min(stop) - 1
    IN [i |-> m.i - n, j |-> m.j - n, k |-> m.k + n]

\* extend the block to the right while the elements after it agree
ExtendForward(a, b, ahi, bhi, m) ==
    LET lim == Min({ahi - (m.i + m.k), bhi - (m.j + m.k)})
        stop == {t \in 0..(lim - 1) : a[m.i + m.k + t + 1] # b[m.j + m.k + t + 1]}
        n == IF stop = {} THEN lim ELSE Min(stop)
    IN [m EXCEPT !.k = m.k + n]

\* find_longest_match(alo, ahi, blo, bhi): the first pair, for i ascending
\* and then j ascending, at which the longest run of indexed elements ends,
\* then extended on both sides (isjunk is None: there is no junk)
find_longest_match(a, b, alo, ahi, blo, bhi) ==
    LET pop   == Popular(b)
        js    == {j \in blo..(bhi - 1) : b[j + 1] \notin pop}
        cands == {p \in (alo..(ahi - 1)) \X js : a[p[1] + 1] = b[p[2] + 1]}
        len == [p \in cands |-> RunLen(a, b, pop, alo, blo, p[1], p[2])]
        best == IF cands = {} THEN [i |-> alo, j |-> blo, k |-> 0]
                ELSE LET e == CHOOSE p \in cands :
                                \A q \in cands :
                                    \/ len[q] < len[p]
                                    \/ /\ len[q] = len[p]
                                       /\ \/ p[1] < q[1]
                                          \/ p[1] = q[1] /\ p[2] <= q[2]
                     IN [i |-> e[1] - len[e] + 1, j |-> e[2] - len[e] + 1, k |-> len[e]]
    IN ExtendForward(a, b, ahi, bhi, ExtendBack(a, b, alo, blo, best))

\* get_matching_blocks: the total size of the blocks found by splitting
\* around the longest match, left part and right part
RECURSIVE MatchCount(_, _, _, _, _, _)
MatchCount(a, b, alo, ahi, blo, bhi) ==
    LET m == find_longest_match(a, b, alo, ahi, blo, bhi)
    IN IF m.k = 0 THEN 0
       ELSE m.k
            + (IF alo < m.i /\ blo < m.j
               THEN MatchCount(a, b, alo, m.i, blo, m.j) ELSE 0)
            + (IF m.i + m.k < ahi /\ m.j + m.k < bhi
               THEN MatchCount(a, b, m.i + m.k, ahi, m.j + m.k, bhi) ELSE 0)

\* a ratio is kept as the exact fraction n / d, d > 0
Frac(n, d) == [n |-> n, d |-> d]
FracGT(x, y) == x.n * y.d > y.n * x.d
FracEQ(x, y) == x.n * y.d = y.n * x.d

\* a plausible slip: the sizes are compared instead of the matching blocks
similar_by_length(a, b) ==
    IF Len(a) + Len(b) = 0 THEN Frac(1, 1)
    ELSE Frac(2 * (IF Len(a) < Len(b) THEN Len(a) ELSE Len(b)), Len(a) + Len(b))

\* ratio(): 2.0 * matches / (len(a) + len(b)), and 1.0 for two empty sequences
similar(a, b) ==
    IF Len(a) + Len(b) = 0 THEN Frac(1, 1)
    ELSE Frac(2 * MatchCount(a, b, 0, Len(a), 0, Len(b)), Len(a) + Len(b))

-----------------------------------------------------------------------------
(* run_comparison: compare_api.py:22-163 *)

\* mappings (compare_api.py:36-41), the remote ids in the dict's order; the
\* display name of a category is a function of its id and is left out
mappings == <<27, 28, 1, 25>>

\* r_text[:200] and l_text[:200] (compare_api.py:66)
Window == 200
\* the excerpt of a Repeat Mismatch entry (compare_api.py:81-82)
Excerpt == 100
\* ratio > 0.85 and best_ratio > 0.5, in hundredths (compare_api.py:71, 87)
MatchPct == 85
MismatchPct == 50

\* a JSON value of the REPEAT / count field: absent, null, a number or a string
Absent == [kind |-> "absent", num |-> 0, str |-> <<>>]
Null == [kind |-> "null", num |-> 0, str |-> <<>>]
Num(n) == [kind |-> "int", num |-> n, str |-> <<>>]
Str(s) == [kind |-> "str", num |-> 0, str |-> s]

\* Python truth of a JSON value: None, 0 and "" are false
Truthy(v) ==
    CASE v.kind \in {"absent", "null"} -> FALSE
      [] v.kind = "int" -> v.num # 0
      [] v.kind = "str" -> v.str # <<>>

Digits == <<"0", "1", "2", "3", "4", "5", "6", "7", "8", "9">>
DigitValue(c) == (CHOOSE d \in 1..10 : Digits[d] = c) - 1
IsDigit(c) == \E d \in 1..10 : Digits[d] = c

\* str(n) for n >= 0, as a text
RECURSIVE DecimalChars(_)
DecimalChars(n) ==
    IF n < 10 THEN <<Digits[n + 1]>>
    ELSE DecimalChars(n \div 10) \o <<Digits[(n % 10) + 1]>>

\* the value of a string of decimal digits
RECURSIVE DecimalValue(_)
DecimalValue(s) ==
    IF s = <<>> THEN 0
    ELSE 10 * DecimalValue(SubSeq(s, 1, Len(s) - 1)) + DigitValue(s[Len(s)])

\* int(v): the number itself, the value of a string of decimal digits with an
\* optional sign; ValueError for any other string and TypeError for None are
\* both reported as ok = FALSE (surrounding blanks and digit separators, which
\* int() also accepts, are not among the inputs)
PyInt(v) ==
    CASE v.kind = "int" -> [ok |-> TRUE, val |-> v.num]
      [] v.kind = "str" ->
            LET signed == v.str # <<>> /\ v.str[1] \in {"-", "+"}
                digits == IF signed THEN Tail(v.str) ELSE v.str
            IN IF digits # <<>> /\ \A i \in 1..Len(digits) : IsDigit(digits[i])
               THEN [ok |-> TRUE,
                     val |-> IF signed /\ v.str[1] = "-"
                             THEN 0 - DecimalValue(digits)
                             ELSE DecimalValue(digits)]
               ELSE [ok |-> FALSE, val |-> 0]
      [] OTHER -> [ok |-> FALSE, val |-> 0]

\* a plausible slip: only a missing REPEAT defaults to 1, a 0 stays 0
RemoteRepeatKeepsZero(r_item) ==
    IF r_item.REPEAT.kind \in {"absent", "null"} \/ r_item.REPEAT = Str(<<>>)
    THEN [ok |-> TRUE, val |-> 1]
    ELSE PyInt(r_item.REPEAT)

\* int(r_item.get('REPEAT', 1)) if r_item.get('REPEAT') else 1
RemoteRepeat(r_item) ==
    IF Truthy(r_item.REPEAT) THEN PyInt(r_item.REPEAT)
    ELSE [ok |-> TRUE, val |-> 1]

\* a plausible slip: .get('max') without the default
LocalRepeatNoDefault(l_item) ==
    IF l_item.repeat_max.kind = "absent" THEN 0 ELSE l_item.repeat_max.num

\* l_item.get('repeat', {}).get('max', 1)
LocalRepeat(l_item) ==
    IF l_item.repeat_max.kind = "absent" THEN 1 ELSE l_item.repeat_max.num

(* the inputs of one run of run_comparison *)

\* REPEAT values: absent, 0, two counts, a numeric and a non-numeric string
CmpRepeats == {Absent, Num(0), Num(1), Num(3), Str(<<"3">>), Str(<<"x">>)}

\* texts longer than the window: "ab" repeated, with "xy" repeated from
\* position from on
LongText(len, from) ==
    [i \in 1..len |->
        IF i < from THEN (IF i % 2 = 1 THEN "a" ELSE "b")
        ELSE (IF i % 2 = 1 THEN "x" ELSE "y")]

\* one remote text that cleans to "abcd", with every REPEAT value, and a
\* long one
RemoteItems ==
    [ARABIC_TEXT : {<<" ", "a", "b", "c", Marker, "d">>}, REPEAT : CmpRepeats]
    \cup {[ARABIC_TEXT |-> LongText(202, 201), REPEAT |-> Num(1)]}

\* local texts "abc", one that cleans to "abcd", and a long one that shares
\* its first 140 characters with the long remote text
LocalItems ==
    { [text |-> <<"a", "b", "c">>, repeat_max |-> Num(3)],
      [text |-> <<"a", "b", Marker, "c", "d", "\n">>, repeat_max |-> Absent],
      [text |-> LongText(202, 141), repeat_max |-> Num(1)] }

\* clean_text of every text of the model, computed once
CleanTable ==
    [t \in {x.ARABIC_TEXT : x \in RemoteItems} \cup {x.text : x \in LocalItems} |->
        clean_text(t)] @@ <<>>

\* similar(r_text[:200], l_text[:200]) for every remote and local text of the
\* model, computed once
RatioTable ==
    [r \in {x.ARABIC_TEXT : x \in RemoteItems}, l \in {x.text : x \in LocalItems} |->
        similar(Prefix(CleanTable[r], Window), Prefix(CleanTable[l], Window))] @@ <<>>

\* ratio = similar(r_text[:200], l_text[:200]) (compare_api.py:58, 65-66)
ItemRatio(r_item, l_item) == RatioTable[r_item.ARABIC_TEXT, l_item.text]

\* a plausible slip: the lower threshold is used for a match
IsMatchLoose(ratio) == FracGT(ratio, Frac(MismatchPct, 100))

\* ratio > 0.85 (compare_api.py:71)
IsMatch(ratio) == FracGT(ratio, Frac(MatchPct, 100))

NoScan == [found |-> FALSE, best_match |-> 0, best_ratio |-> Frac(0, 1),
           l_idx |-> 0, raised |-> FALSE, entries |-> <<>>, n_before |-> 0]

\* the loop over local_all (compare_api.py:64-84) from position l on, one
\* iteration per unfolding; best_match and l_idx are positions in local_all
\* (0: None), entries is what the loop appends to report_items, raised tells
\* that int() raised
RECURSIVE ScanLocal(_, _, _, _)
ScanLocal(rid, r_item, l, st) ==
    IF l > Len(local_all) THEN st
    ELSE
      LET l_item == local_all[l]
          r_text == CleanTable[r_item.ARABIC_TEXT]
          l_text == CleanTable[l_item.text]
          ratio  == ItemRatio(r_item, l_item)
          st1    == IF FracGT(ratio, st.best_ratio)
                    THEN [st EXCEPT !.best_ratio = ratio, !.best_match = l]
                    ELSE st
          r_rep  == RemoteRepeat(r_item)
          l_rep  == LocalRepeat(l_item)
      IN IF IsMatch(ratio)
         THEN IF ~r_rep.ok
              THEN [st1 EXCEPT !.found = TRUE, !.l_idx = l, !.raised = TRUE]
              ELSE [st1 EXCEPT
                      !.found = TRUE,
                      !.l_idx = l,
                      !.entries =
                          IF r_rep.val # l_rep
                          THEN <<[status   |-> "Repeat Mismatch",
                                  category |-> rid,
                                  remote   |-> Prefix(r_text, Excerpt),
                                  r_rep    |-> r_rep.val,
                                  local    |-> Prefix(l_text, Excerpt),
                                  l_rep    |-> l_rep,
                                  ratio    |-> Frac(0, 1)]>>
                          ELSE <<>>]
         ELSE ScanLocal(rid, r_item, l + 1, st1)

\* compare_api.py:86-102: the entry of a remote item that was not found
UnmatchedEntry(rid, r_item, st) ==
    LET r_text == CleanTable[r_item.ARABIC_TEXT]
    IN IF FracGT(st.best_ratio, Frac(MismatchPct, 100))
       THEN [status   |-> "Potential Mismatch",
             category |-> rid,
             remote   |-> Prefix(r_text, Window),
             r_rep    |-> 0,
             local    |-> Prefix(CleanTable[local_all[st.best_match].text], Window),
             l_rep    |-> 0,
             ratio    |-> st.best_ratio]
       ELSE [status   |-> "Missing",
             category |-> rid,
             remote   |-> Prefix(r_text, Window),
             r_rep    |-> 0,
             local    |-> <<>>,
             l_rep    |-> 0,
             ratio    |-> Frac(0, 1)]

NoContent == [ok |-> FALSE, items |-> <<>>]

CompareIdle ==
    /\ cmp_pc = "idle"
    /\ local_all = <<>>
    /\ cmp_cat = 0
    /\ remote_content = NoContent
    /\ r_idx = 0
    /\ cmp_seen = 0
    /\ scan = NoScan
    /\ report_items = <<>>
    /\ report_file = NoFile

-----------------------------------------------------------------------------
(* convert_adhkar.py: CATEGORY_MAP, classify_morning_evening, make_id,
   convert_item *)

\* Python None in a string-valued field
None == "None"

\* the hisnCategory of the hisn entries of CATEGORY_MAP
HisnCategoryOf(id) ==
    CASE id \in {3} -> "waking"
      [] id \in {4, 5, 8, 9} -> "home"
      [] id \in {6, 7} -> "wudu"
      [] id \in {10, 11, 12, 18, 19, 20, 21, 22, 23, 24, 25, 26, 28, 32,
               33, 42, 107} -> "prayer"
      [] id \in {13} -> "adhan"
      [] id \in {14, 15, 16, 17, 46, 47, 61, 62, 63, 64, 65, 66, 67, 77,
               78, 79, 80, 81, 83, 84, 85, 86, 89, 90, 91, 93, 106, 108,
               109, 110, 111, 113, 114, 115, 116, 117, 118, 119, 120, 121,
               127, 132} -> "misc"
      [] id \in {29, 30, 31} -> "sleeping"
      [] id \in {34, 35, 41, 43} -> "distress"
      [] id \in {36, 37, 38, 39, 40, 45, 48, 82, 88, 92, 94, 125, 126, 128} -> "protection"
      [] id \in {44, 112, 129} -> "forgiveness"
      [] id \in {49, 50, 51, 52, 53, 54, 55, 56, 57, 58, 59, 60, 124} -> "illness"
      [] id \in {68, 69, 70, 71, 72, 73, 74, 75, 76} -> "food"
      [] id \in {87, 122, 123, 130, 131} -> "gratitude"
      [] id \in {95, 96, 97, 98, 99, 100, 101, 102, 103, 104, 105} -> "travel"

\* CATEGORY_MAP: source_id -> (source, category, hisnCategory); its keys are
\* exactly 1..132
CATEGORY_MAP ==
    [id \in 1..132 |->
        IF id = 1 THEN <<"daily", None, None>>
        ELSE IF id = 2 THEN <<"daily", "sleep", None>>
        ELSE IF id = 27 THEN <<"daily", "after_prayer", None>>
        ELSE <<"hisn", "hisn", HisnCategoryOf(id)>>]

\* Transliteration, one code point to one character:
\*   U+0621 Z   U+0622 W   U+0623 A   U+0625 E   U+0627 L   U+0628 b
\*   U+0629 T   U+062A t   U+062D H   U+062F d   U+0630 z   U+0631 r
\*   U+0633 s   U+0635 S   U+0639 c   U+063A g   U+0641 f   U+0642 q
\*   U+0643 k   U+0644 l   U+0645 m   U+0646 n   U+0647 h   U+0648 w
\*   U+0649 Y   U+064A y   U+064C N (dammatan)   U+064E a (fatha)
\*   U+064F u (damma)   U+0650 i (kasra)   U+0651 D (shadda)
\*   U+0652 o (sukun)
MORNING_KEYWORDS ==
    << <<"A", "a", "S", "o", "b", "a", "H", "o", "n", "a", "L">>,
       <<"A", "a", "S", "o", "b", "a", "H", "o", "t", "u">>,
       <<"A", "a", "S", "o", "b", "a", "H", "a">>,
       <<"E", "z", "L", " ", "A", "S", "b", "H", "a">>,
       <<"E", "z", "L", " ", "A", "S", "b", "H">> >>

EVENING_KEYWORDS ==
    << <<"A", "a", "m", "o", "s", "a", "y", "o", "n", "a", "L">>,
       <<"A", "a", "m", "o", "s", "a", "y", "o", "t", "u">>,
       <<"A", "a", "m", "o", "s", "a", "Y">>,
       <<"E", "z", "L", " ", "A", "m", "s", "Y">> >>

\* any(kw in text for kw in keywords)
AnyIn(keywords, text) ==
    \E k \in 1..Len(keywords) : Contains(text, keywords[k])

\* a plausible slip: the first keyword set that matches decides
classify_first_wins(text) ==
    IF AnyIn(MORNING_KEYWORDS, text) THEN <<"morning">>
    ELSE IF AnyIn(EVENING_KEYWORDS, text) THEN <<"evening">>
    ELSE <<"morning", "evening">>

classify_morning_evening(text) ==
    LET has_morning == AnyIn(MORNING_KEYWORDS, text)
        has_evening == AnyIn(EVENING_KEYWORDS, text)
    IN IF has_morning /\ ~has_evening THEN <<"morning">>
       ELSE IF has_evening /\ ~has_morning THEN <<"evening">>
       ELSE <<"morning", "evening">>

\* f"{n:03d}": at least three characters, the sign among them
Format03d(n) ==
    IF n < 0
    THEN "-" \o (IF -n < 10 THEN "0" ELSE "") \o ToString(-n)
    ELSE (IF n < 10 THEN "00" ELSE IF n < 100 THEN "0" ELSE "") \o ToString(n)

\* a plausible slip: the morning and evening variants get the same id
make_id_no_suffix(source_cat_id, item_index, suffix) ==
    "adhkar-" \o ToString(source_cat_id) \o "-" \o Format03d(item_index)

\* suffix is None or a one-letter string
make_id(source_cat_id, item_index, suffix) ==
    LET base == "adhkar-" \o ToString(source_cat_id) \o "-" \o Format03d(item_index)
    IN IF suffix # None THEN base \o "-" \o suffix ELSE base

\* item.get("count", 1)
ItemCount(item) == IF item.count = Absent THEN Num(1) ELSE item.count

\* a plausible slip: orderIndex is the 0-based index
convert_item_zero_based(source_cat_id, source_category_name, item, item_index, category, hisn_category, source) ==
    [id           |-> make_id(source_cat_id, item_index, None),
     category     |-> category,
     hisnCategory |-> hisn_category,
     source       |-> source,
     title        |-> source_category_name,
     text         |-> item.text,
     repeat       |-> [min |-> ItemCount(item), max |-> ItemCount(item)],
     orderIndex   |-> item_index]

\* the fields reference, benefit, grading, isOptional and repeat.note are
\* constants and are left out
convert_item(source_cat_id, source_category_name, item, item_index, category, hisn_category, source) ==
    [id           |-> make_id(source_cat_id, item_index, None),
     category     |-> category,
     hisnCategory |-> hisn_category,
     source       |-> source,
     title        |-> source_category_name,
     text         |-> item.text,
     repeat       |-> [min |-> ItemCount(item), max |-> ItemCount(item)],
     orderIndex   |-> item_index + 1]

\* cls[0]
Initial(cls) == IF cls = "morning" THEN "m" ELSE "e"

\* the titles given to the two halves of category 1
SplitTitle(cls) ==
    IF cls = "morning"
    THEN <<"A", "z", "k", "L", "r", " ", "L", "l", "S", "b", "L", "H">>
    ELSE <<"A", "z", "k", "L", "r", " ", "L", "l", "m", "s", "L", "Z">>

\* convert_adhkar.py:235-254: the loop over the classifications of one item
\* of category 1, from classification k on; st holds the records emitted and
\* the two counters
RECURSIVE SplitEntries(_, _, _, _)
SplitEntries(item, classifications, k, st) ==
    IF k > Len(classifications) THEN st
    ELSE
      LET cls   == classifications[k]
          idx   == IF cls = "morning" THEN st.morning_index ELSE st.evening_index
          entry == [convert_item(1, SplitTitle(cls), item, idx, cls, None, "daily")
                       EXCEPT !.id = make_id(1, item.id - 1, Initial(cls))]
      IN SplitEntries(item, classifications, k + 1,
            [entries       |-> Append(st.entries, entry),
             morning_index |-> IF cls = "morning" THEN st.morning_index + 1
                               ELSE st.morning_index,
             evening_index |-> IF cls = "morning" THEN st.evening_index
                               ELSE st.evening_index + 1])

\* a plausible slip: an id outside the table is filed under "misc"
LookupGuess(cat_id) ==
    IF cat_id \in DOMAIN CATEGORY_MAP
    THEN [known |-> TRUE, mapping |-> CATEGORY_MAP[cat_id]]
    ELSE [known |-> TRUE, mapping |-> <<"hisn", "hisn", "misc">>]

\* cat_id in CATEGORY_MAP, and CATEGORY_MAP[cat_id] when it is
Lookup(cat_id) ==
    IF cat_id \in DOMAIN CATEGORY_MAP
    THEN [known |-> TRUE, mapping |-> CATEGORY_MAP[cat_id]]
    ELSE [known |-> FALSE, mapping |-> <<None, None, None>>]

-----------------------------------------------------------------------------
(* SpecClean: clean_text applied to two texts that differ only in
   whitespace runs and in occurrences of the marker glyph *)

CleanAlphabet == {"a", " ", "\n", Marker}

InsertAt(text, pos, c) ==
    SubSeq(text, 1, pos) \o <<c>> \o SubSeq(text, pos + 1, Len(text))

\* position pos (0..Len) lies inside or at the edge of a whitespace run, or
\* at either end of the text
TouchesRun(text, pos) ==
    IF pos = 0 \/ pos = Len(text) THEN TRUE
    ELSE text[pos] \in Whitespace \/ text[pos + 1] \in Whitespace

\* the second text gets one more marker glyph somewhere
EditInsertMarker ==
    /\ ct_pc = "input"
    /\ Len(ct_b) < MaxEditLen
    /\ \E pos \in 0..Len(ct_b) : ct_b' = InsertAt(ct_b, pos, Marker)
    /\ UNCHANGED <<ct_pc, ct_a, ct_out>>
    /\ UNCHANGED <<cmpVars, convVars, syncVars, ddVars>>

\* a whitespace run of the second text grows (or one appears at an end)
EditGrowRun ==
    /\ ct_pc = "input"
    /\ Len(ct_b) < MaxEditLen
    /\ \E pos \in 0..Len(ct_b), w \in Whitespace :
          /\ TouchesRun(ct_b, pos)
          /\ ct_b' = InsertAt(ct_b, pos, w)
    /\ UNCHANGED <<ct_pc, ct_a, ct_out>>
    /\ UNCHANGED <<cmpVars, convVars, syncVars, ddVars>>

\* one whitespace character of the second text becomes another one
EditChangeSpace ==
    /\ ct_pc = "input"
    /\ \E pos \in 1..Len(ct_b), w \in Whitespace :
          /\ ct_b[pos] \in Whitespace
          /\ ct_b[pos] # w
          /\ ct_b' = [ct_b EXCEPT ![pos] = w]
    /\ UNCHANGED <<ct_pc, ct_a, ct_out>>
    /\ UNCHANGED <<cmpVars, convVars, syncVars, ddVars>>

\* both copies of clean_text are applied; the result is cleaned once more
ApplyCleanText ==
    /\ ct_pc = "input"
    /\ ct_out' = [a     |-> clean_text(ct_a),
                  b     |-> clean_text(ct_b),
                  sync  |-> clean_text_sync(ct_b),
                  twice |-> clean_text(clean_text(ct_b))]
    /\ ct_pc' = "done"
    /\ UNCHANGED <<ct_a, ct_b>>
    /\ UNCHANGED <<cmpVars, convVars, syncVars, ddVars>>

-----------------------------------------------------------------------------
(* SpecCompare: one run of run_comparison *)

InitCompare ==
    /\ cmp_pc = "fetch"
    /\ local_all \in SeqsUpTo(LocalItems, MaxLocal)
    /\ cmp_cat = 1
    /\ remote_content = NoContent
    /\ r_idx = 0
    /\ cmp_seen = 0
    /\ scan = NoScan
    /\ report_items = <<>>
    /\ report_file = NoFile

\* compare_api.py:45-55: fetch_json for the next category; None (or an empty
\* document) skips the category
CmpFetch ==
    /\ cmp_pc = "fetch"
    /\ cmp_cat <= Len(mappings)
    /\ \E content \in {NoContent} \cup
                      {[ok |-> TRUE, items |-> its] :
                          its \in SeqsUpTo(RemoteItems, MaxRemote - cmp_seen)} :
          /\ remote_content' = content
          /\ IF content.ok
             THEN cmp_pc' = "items" /\ cmp_cat' = cmp_cat
             ELSE cmp_pc' = "fetch" /\ cmp_cat' = cmp_cat + 1
    /\ r_idx' = 0
    /\ UNCHANGED <<local_all, cmp_seen, scan, report_items, report_file>>
    /\ UNCHANGED <<ctVars, convVars, syncVars, ddVars>>

\* compare_api.py:57-102: one remote item is compared with local_all
CmpItem ==
    /\ cmp_pc = "items"
    /\ r_idx < Len(remote_content.items)
    /\ \E st \in {ScanLocal(mappings[cmp_cat], remote_content.items[r_idx + 1],
                              1, [NoScan EXCEPT !.n_before = Len(report_items)])} :
       LET rid    == mappings[cmp_cat]
           r_item == remote_content.items[r_idx + 1]
       IN /\ scan' = st
          /\ IF st.raised
             THEN cmp_pc' = "raised" /\ UNCHANGED report_items
             ELSE /\ cmp_pc' = "items"
                  /\ report_items' =
                        IF st.found THEN report_items \o st.entries
                        ELSE Append(report_items, UnmatchedEntry(rid, r_item, st))
    /\ r_idx' = r_idx + 1
    /\ cmp_seen' = cmp_seen + 1
    /\ UNCHANGED <<local_all, cmp_cat, remote_content, report_file>>
    /\ UNCHANGED <<ctVars, convVars, syncVars, ddVars>>

\* the items of the category are exhausted: on to the next category
CmpNextCategory ==
    /\ cmp_pc = "items"
    /\ r_idx = Len(remote_content.items)
    /\ cmp_pc' = "fetch"
    /\ cmp_cat' = cmp_cat + 1
    /\ UNCHANGED <<local_all, remote_content, r_idx, cmp_seen, scan,
                   report_items, report_file>>
    /\ UNCHANGED <<ctVars, convVars, syncVars, ddVars>>

\* compare_api.py:104-163: the report is rendered and written
CmpWriteReport ==
    /\ cmp_pc = "fetch"
    /\ cmp_cat > Len(mappings)
    /\ report_file' = [written |-> TRUE, items |-> report_items]
    /\ cmp_pc' = "done"
    /\ UNCHANGED <<local_all, cmp_cat, remote_content, r_idx, cmp_seen, scan,
                   report_items>>
    /\ UNCHANGED <<ctVars, convVars, syncVars, ddVars>>

-----------------------------------------------------------------------------
(* SpecConvert: one run of main (convert_adhkar.py) *)

\* texts with a morning keyword, an evening keyword, both, and neither
MorningText == MORNING_KEYWORDS[5]
EveningText == EVENING_KEYWORDS[3]
BothText == MORNING_KEYWORDS[3] \o EVENING_KEYWORDS[3]
PlainText == <<"s", "b", "H">>

\* raw items of source category 1: {"id", "text", "count"}
SplitItems ==
    { [id |-> 1, text |-> MorningText, count |-> Absent],
      [id |-> 2, text |-> EveningText, count |-> Num(3)],
      [id |-> 2, text |-> BothText,    count |-> Null],
      [id |-> 3, text |-> PlainText,   count |-> Num(0)] }

\* raw items of the other source categories
PlainItems ==
    { [id |-> 1, text |-> PlainText,   count |-> Absent],
      [id |-> 2, text |-> EveningText, count |-> Num(3)] }

RawItems(cat_id) == IF cat_id = 1 THEN SplitItems ELSE PlainItems

\* source category ids: the split category, two hisn ones, and one that is
\* no key of CATEGORY_MAP
ConvIds == {1, 5, 6, 200}

CatName(cat_id) == <<"c">> \o DecimalChars(cat_id)

\* the source categories {"id", "category", "array"} with k items
SourceCats(k) ==
    UNION {{[id |-> i, category |-> CatName(i), array |-> a] :
               a \in [1..k -> RawItems(i)]} : i \in ConvIds}

\* the source documents with at most n items in all
RECURSIVE Sources(_)
Sources(n) ==
    {<<>>} \cup
    UNION {{<<c>> \o rest : c \in SourceCats(k), rest \in Sources(n - k)} :
              k \in 1..n}

InitConvert ==
    /\ conv_pc = "cat"
    /\ source_data \in Sources(MaxConvItems)
    /\ conv_cat = 1
    /\ conv_item = 0
    /\ conv_base = 0
    /\ morning_index = 0
    /\ evening_index = 0
    /\ all_athkar = <<>>
    /\ conv_file = NoFile
    /\ cls_pc = "idle" /\ cls_text = <<>> /\ cls_out = <<>>

\* convert_adhkar.py:217-233, 256: the next source category; an id outside
\* CATEGORY_MAP is skipped with a warning, category 1 resets the two counters
ConvCategory ==
    /\ conv_pc = "cat"
    /\ conv_cat <= Len(source_data)
    /\ LET cat == source_data[conv_cat]
       IN IF ~Lookup(cat.id).known
          THEN /\ conv_cat' = conv_cat + 1
               /\ UNCHANGED <<conv_pc, conv_item, conv_base, morning_index,
                              evening_index>>
          ELSE /\ conv_pc' = IF cat.id = 1 THEN "split" ELSE "items"
               /\ conv_item' = 0
               /\ conv_base' = Len(all_athkar)
               /\ IF cat.id = 1
                  THEN morning_index' = 0 /\ evening_index' = 0
                  ELSE UNCHANGED <<morning_index, evening_index>>
               /\ UNCHANGED conv_cat
    /\ UNCHANGED <<source_data, all_athkar, conv_file, cls_pc, cls_text, cls_out>>
    /\ UNCHANGED <<ctVars, cmpVars, syncVars, ddVars>>

\* convert_adhkar.py:234-253: one item of category 1 is classified and
\* emitted once or twice
ConvSplitItem ==
    /\ conv_pc = "split"
    /\ conv_item < Len(source_data[conv_cat].array)
    /\ \E st \in {LET item == source_data[conv_cat].array[conv_item + 1]
                  IN SplitEntries(item, classify_morning_evening(item.text), 1,
                                  [entries       |-> <<>>,
                                   morning_index |-> morning_index,
                                   evening_index |-> evening_index])} :
          /\ all_athkar' = all_athkar \o st.entries
          /\ morning_index' = st.morning_index
          /\ evening_index' = st.evening_index
    /\ conv_item' = conv_item + 1
    /\ UNCHANGED <<conv_pc, source_data, conv_cat, conv_base, conv_file,
                   cls_pc, cls_text, cls_out>>
    /\ UNCHANGED <<ctVars, cmpVars, syncVars, ddVars>>

\* convert_adhkar.py:256-269: one item of any other mapped category
ConvItem ==
    /\ conv_pc = "items"
    /\ conv_item < Len(source_data[conv_cat].array)
    /\ LET cat     == source_data[conv_cat]
           mapping == Lookup(cat.id).mapping
           entry   == convert_item(cat.id, cat.category, cat.array[conv_item + 1],
                                   conv_item, mapping[2], mapping[3], mapping[1])
       IN all_athkar' = Append(all_athkar, entry)
    /\ conv_item' = conv_item + 1
    /\ UNCHANGED <<conv_pc, source_data, conv_cat, conv_base, morning_index,
                   evening_index, conv_file, cls_pc, cls_text, cls_out>>
    /\ UNCHANGED <<ctVars, cmpVars, syncVars, ddVars>>

\* the items of the category are exhausted: on to the next category
ConvNextCategory ==
    /\ conv_pc \in {"split", "items"}
    /\ conv_item = Len(source_data[conv_cat].array)
    /\ conv_pc' = "cat"
    /\ conv_cat' = conv_cat + 1
    /\ UNCHANGED <<source_data, conv_item, conv_base, morning_index,
                   evening_index, all_athkar, conv_file, cls_pc, cls_text, cls_out>>
    /\ UNCHANGED <<ctVars, cmpVars, syncVars, ddVars>>

\* convert_adhkar.py:271-275: {"athkar": all_athkar} is written
ConvWrite ==
    /\ conv_pc = "cat"
    /\ conv_cat > Len(source_data)
    /\ conv_file' = [written |-> TRUE, items |-> all_athkar]
    /\ conv_pc' = "done"
    /\ UNCHANGED <<source_data, conv_cat, conv_item, conv_base, morning_index,
                   evening_index, all_athkar, cls_pc, cls_text, cls_out>>
    /\ UNCHANGED <<ctVars, cmpVars, syncVars, ddVars>>

-----------------------------------------------------------------------------
(* SpecClassify: the category-1 loop body applied to one item of any text *)

\* pieces a text is put together from: the keywords, their stems, fillers
ClsFragments ==
    {MORNING_KEYWORDS[k] : k \in 1..Len(MORNING_KEYWORDS)}
    \cup {EVENING_KEYWORDS[k] : k \in 1..Len(EVENING_KEYWORDS)}
    \cup { <<"A", "a", "S", "o", "b", "a", "H">>, <<"A", "a", "m", "o", "s", "a">>,
           <<"a">>, <<"Y">>, <<" ">>, <<"x">> }

RECURSIVE Flatten(_)
Flatten(fs) == IF fs = <<>> THEN <<>> ELSE Head(fs) \o Flatten(Tail(fs))

InitClassify ==
    /\ cls_pc = "input"
    /\ cls_text \in {Flatten(fs) : fs \in SeqsUpTo(ClsFragments, MaxFragments)}
    /\ cls_out = <<>>
    /\ conv_pc = "idle" /\ source_data = <<>> /\ conv_cat = 0 /\ conv_item = 0
    /\ conv_base = 0 /\ morning_index = 0 /\ evening_index = 0
    /\ all_athkar = <<>> /\ conv_file = NoFile

\* convert_adhkar.py:234-253 for one item, the counters at zero
ClsSplitItem ==
    /\ cls_pc = "input"
    /\ cls_out' = SplitEntries([id |-> 1, text |-> cls_text, count |-> Absent],
                               classify_morning_evening(cls_text), 1,
                               [entries |-> <<>>, morning_index |-> 0,
                                evening_index |-> 0]).entries
    /\ cls_pc' = "done"
    /\ UNCHANGED <<cls_text, conv_pc, source_data, conv_cat, conv_item, conv_base,
                   morning_index, evening_index, all_athkar, conv_file>>
    /\ UNCHANGED <<ctVars, cmpVars, syncVars, ddVars>>

-----------------------------------------------------------------------------
(* SpecSync: one run of run_sync (sync_official_data.py) *)

\* daily_mapping; every other category id goes to the hisn library
daily_mapping ==
    [cid \in {27, 28, 1, 25} |->
        CASE cid = 27 -> <<"morning", "evening">>
          [] cid = 28 -> <<"sleep">>
          [] cid = 1  -> <<"waking">>
          [] cid = 25 -> <<"after_prayer">>]

\* the substrings looked for in the text of an item of category 27
\* (U+0635 U+0628 U+0627 U+062D, U+0623 U+0635 U+0628 U+062D,
\*  U+0645 U+0633 U+0627, U+0623 U+0645 U+0633)
SyncMorningWords == << <<"S", "b", "L", "H">>, <<"A", "S", "b", "H">> >>
SyncEveningWords == << <<"m", "s", "L">>, <<"A", "m", "s">> >>

\* try: int(item.get('REPEAT', 1)) except: 1
SyncRepeat(item) ==
    LET r == PyInt(IF item.REPEAT = Absent THEN Num(1) ELSE item.REPEAT)
    IN IF r.ok THEN r.val ELSE 1

\* f"sync-{cid}-{idx:03d}"
SyncId(cid, idx) == "sync-" \o ToString(cid) \o "-" \o Format03d(idx)

\* sync_official_data.py:73-99: dhikr_obj, its category still to be filled;
\* reference, benefit, grading, isOptional and repeat.note are left out
DhikrObj(cid, ctitle, items, idx) ==
    [id         |-> SyncId(cid, idx),
     category   |-> "",
     title      |-> IF Len(items) = 1 THEN ctitle
                    ELSE ctitle \o <<" ", "(">> \o DecimalChars(idx + 1) \o <<")">>,
     text       |-> clean_text_sync(items[idx + 1].ARABIC_TEXT),
     repeat     |-> [min |-> Num(SyncRepeat(items[idx + 1])),
                     max |-> Num(SyncRepeat(items[idx + 1]))],
     orderIndex |-> idx + 1]

\* sync_official_data.py:101-124: the records an item of a daily category
\* adds to final_daily
DailyEntries(cid, dhikr_obj) ==
    IF cid = 27
    THEN IF AnyIn(SyncMorningWords, dhikr_obj.text)
         THEN << [dhikr_obj EXCEPT !.category = "morning"] >>
         ELSE IF AnyIn(SyncEveningWords, dhikr_obj.text)
         THEN << [dhikr_obj EXCEPT !.category = "evening"] >>
         ELSE << [dhikr_obj EXCEPT !.category = "morning",
                                   !.id = dhikr_obj.id \o "-m"],
                 [dhikr_obj EXCEPT !.category = "evening",
                                   !.id = dhikr_obj.id \o "-e"] >>
    ELSE << [dhikr_obj EXCEPT !.category = daily_mapping[cid][1]] >>

\* sync_official_data.py:71-130: the loop over the items of one category,
\* from index idx on; st holds final_daily and final_hisn_duas
RECURSIVE SyncItems(_, _, _, _, _)
SyncItems(cid, ctitle, items, idx, st) ==
    IF idx >= Len(items) THEN st
    ELSE
      LET dhikr_obj == DhikrObj(cid, ctitle, items, idx)
      IN SyncItems(cid, ctitle, items, idx + 1,
            IF cid \in DOMAIN daily_mapping
            THEN [st EXCEPT !.daily = @ \o DailyEntries(cid, dhikr_obj)]
            ELSE [st EXCEPT !.duas =
                     Append(@, [dhikr_obj EXCEPT
                                   !.category = "cat-" \o ToString(cid)])])

\* the items the API returns: {"ARABIC_TEXT", "REPEAT"}
SyncRemoteItems ==
    { [ARABIC_TEXT |-> <<" ", "S", "b", "L", "H", Marker>>, REPEAT |-> Absent],
      [ARABIC_TEXT |-> <<"m", "s", "L">>, REPEAT |-> Null],
      [ARABIC_TEXT |-> <<"A", "S", "b", "H", " ", "A", "m", "s">>, REPEAT |-> Num(3)],
      [ARABIC_TEXT |-> <<"x">>, REPEAT |-> Str(<<"x">>)],
      [ARABIC_TEXT |-> <<"x", "y">>, REPEAT |-> Num(0)],
      [ARABIC_TEXT |-> <<"y">>, REPEAT |-> Str(<<"-", "2">>)] }

\* category ids of the index: the split one, a daily one, a hisn one
SyncIds == {27, 28, 5}

\* the entries {"ID", "TITLE"} of the index document (TEXT, the url of the
\* category's document, is left out)
IndexEntries == {[ID |-> i, TITLE |-> <<"t">> \o DecimalChars(i)] : i \in SyncIds}

NoSyncFiles == [written |-> FALSE, daily |-> <<>>, categories |-> <<>>, duas |-> <<>>]

InitSync ==
    /\ sync_pc = "index"
    /\ categories = <<>>
    /\ sync_cat = 0
    /\ sync_content = NoContent
    /\ sync_seen = 0
    /\ final_daily = <<>>
    /\ final_hisn_duas = <<>>
    /\ final_hisn_categories = <<>>
    /\ sync_files = NoSyncFiles

\* sync_official_data.py:23-30: the index is fetched; without it (None, or a
\* document that is empty and so false) the run ends at once
SyncFetchIndex ==
    /\ sync_pc = "index"
    /\ \E index_data \in {NoContent} \cup
                         {[ok |-> TRUE, items |-> cs] :
                             cs \in SeqsUpTo(IndexEntries, MaxSyncCats)} :
          IF ~index_data.ok
          THEN sync_pc' = "aborted" /\ UNCHANGED <<categories, sync_cat>>
          ELSE /\ sync_pc' = "cat"
               /\ categories' = index_data.items
               /\ sync_cat' = 1
    /\ UNCHANGED <<sync_content, sync_seen, final_daily, final_hisn_duas,
                   final_hisn_categories, sync_files>>
    /\ UNCHANGED <<ctVars, cmpVars, convVars, ddVars>>

\* sync_official_data.py:46-130: one category of the index; a document that
\* cannot be fetched (or is empty) skips the category
SyncCategory ==
    /\ sync_pc = "cat"
    /\ sync_cat <= Len(categories)
    /\ \E content \in {NoContent} \cup
                      {[ok |-> TRUE, items |-> its] :
                          its \in SeqsUpTo(SyncRemoteItems, MaxSyncItems - sync_seen)} :
          /\ sync_content' = content
          /\ LET cid    == categories[sync_cat].ID
                 ctitle == categories[sync_cat].TITLE
                 st     == SyncItems(cid, ctitle, content.items, 0,
                                     [daily |-> final_daily, duas |-> final_hisn_duas])
             IN IF ~content.ok
                THEN UNCHANGED <<sync_seen, final_daily, final_hisn_duas,
                                 final_hisn_categories>>
                ELSE /\ final_hisn_categories' =
                           IF cid \in DOMAIN daily_mapping THEN final_hisn_categories
                           ELSE Append(final_hisn_categories,
                                       [id   |-> "hisn-cat-" \o ToString(cid),
                                        name |-> ctitle])
                     /\ final_daily' = st.daily
                     /\ final_hisn_duas' = st.duas
                     /\ sync_seen' = sync_seen + Len(content.items)
    /\ sync_cat' = sync_cat + 1
    /\ UNCHANGED <<sync_pc, categories, sync_files>>
    /\ UNCHANGED <<ctVars, cmpVars, convVars, ddVars>>

\* sync_official_data.py:132-142: daily_athkar.json and hisn.json are written
SyncSave ==
    /\ sync_pc = "cat"
    /\ sync_cat > Len(categories)
    /\ sync_files' = [written    |-> TRUE,
                      daily      |-> final_daily,
                      categories |-> final_hisn_categories,
                      duas       |-> final_hisn_duas]
    /\ sync_pc' = "done"
    /\ UNCHANGED <<categories, sync_cat, sync_content, sync_seen, final_daily,
                   final_hisn_duas, final_hisn_categories>>
    /\ UNCHANGED <<ctVars, cmpVars, convVars, ddVars>>

-----------------------------------------------------------------------------
(* SpecDedup: runs of smart_deduplicate (smart_deduplicate.py) *)

essential_keywords ==
    <<
       <<"W", "y", "T", " ", "L", "l", "k", "r", "s", "y">>,
       <<"q", "u", "l", "o", " ", "h", "u", "w", "a", " ", "L", "l", "l",
         "a", "D", "h", "u", " ", "A", "a", "H", "a", "d", "N">>,
       <<"q", "u", "l", "o", " ", "A", "a", "c", "u", "w", "z", "u", " ",
         "b", "i", "r", "a", "b", "i", "D", " ", "L", "l", "o", "f", "a",
         "l", "a", "q", "i">>,
       <<"q", "u", "l", "o", " ", "A", "a", "c", "u", "w", "z", "u", " ",
         "b", "i", "r", "a", "b", "i", "D", " ", "L", "l", "n", "a", "D",
         "L", "s", "i">>,
       <<"s", "y", "d", " ", "L", "l", "L", "s", "t", "g", "f", "L", "r">>,
       <<"A", "a", "S", "o", "b", "a", "H", "o", "n", "a", "L", " ", "w",
         "a", "A", "a", "S", "o", "b", "a", "H", "a", " ", "L", "l", "o",
         "m", "u", "l", "o", "k", "u">>,
       <<"A", "a", "m", "o", "s", "a", "y", "o", "n", "a", "L", " ", "w",
         "a", "A", "a", "m", "o", "s", "a", "Y", " ", "L", "l", "o", "m",
         "u", "l", "o", "k", "u">> >>

\* keyword in title or keyword in text, for some keyword
is_essential(item) ==
    \E k \in 1..Len(essential_keywords) :
        \/ Contains(item.title, essential_keywords[k])
        \/ Contains(item.text, essential_keywords[k])

\* item['text'][:100]
KeyLen == 100
TextKey(item) == Prefix(item.text, KeyLen)

\* the keys of text_groups, in order of first occurrence
RECURSIVE GroupKeys(_)
GroupKeys(athkar) ==
    IF athkar = <<>> THEN <<>>
    ELSE LET front == GroupKeys(SubSeq(athkar, 1, Len(athkar) - 1))
             key   == TextKey(athkar[Len(athkar)])
         IN IF \E k \in 1..Len(front) : front[k] = key THEN front
            ELSE Append(front, key)

\* text_groups[text_key]: the items with that key, in file order
RECURSIVE Group(_, _)
Group(athkar, text_key) ==
    IF athkar = <<>> THEN <<>>
    ELSE (IF TextKey(Head(athkar)) = text_key THEN <<Head(athkar)>> ELSE <<>>)
         \o Group(Tail(athkar), text_key)

\* a plausible slip: the first item is kept, of whatever category
SurvivorsKeepFirst(items) ==
    IF Len(items) = 1 THEN items
    ELSE IF is_essential(items[1]) THEN items
    ELSE <<items[1]>>

\* smart_deduplicate.py:47-66: what one group leaves in deduplicated
Survivors(items) ==
    IF Len(items) = 1 THEN items
    ELSE IF is_essential(items[1]) THEN items
    ELSE LET mornings == {k \in 1..Len(items) : items[k].category = "morning"}
         IN IF mornings # {} THEN <<items[Min(mornings)]>> ELSE <<items[1]>>

\* the category values of the model in the order Python compares strings
CategoryOrder == <<"after_prayer", "evening", "hisn", "morning", "sleep", "waking">>
CategoryRank(c) == CHOOSE k \in 1..Len(CategoryOrder) : CategoryOrder[k] = c

\* (x['category'], x['orderIndex']) < (y['category'], y['orderIndex'])
KeyLess(x, y) ==
    \/ CategoryRank(x.category) < CategoryRank(y.category)
    \/ /\ x.category = y.category
       /\ x.orderIndex < y.orderIndex

\* list.sort(key=...): stable
RECURSIVE SortByKey(_)
SortByKey(s) ==
    IF s = <<>> THEN <<>>
    ELSE LET front  == SortByKey(SubSeq(s, 1, Len(s) - 1))
             x      == s[Len(s)]
             before == {k \in 1..Len(front) : ~KeyLess(x, front[k])}
             pos    == IF before = {} THEN 0 ELSE Max(before)
         IN SubSeq(front, 1, pos) \o <<x>> \o SubSeq(front, pos + 1, Len(front))

RECURSIVE Deduplicated(_, _, _)
Deduplicated(athkar, keys, k) ==
    IF k > Len(keys) THEN <<>>
    ELSE Survivors(Group(athkar, keys[k])) \o Deduplicated(athkar, keys, k + 1)

\* the list smart_deduplicate writes for the list it reads
smart_deduplicate(athkar) ==
    SortByKey(Deduplicated(athkar, GroupKeys(athkar), 1))

\* a text of 100 characters, the length of the grouping key
HundredText == [i \in 1..KeyLen |-> IF i % 2 = 1 THEN "x" ELSE "y"]

DedupRecord(id, category, orderIndex, title, text) ==
    [id |-> id, category |-> category, title |-> title, text |-> text,
     repeat |-> [min |-> Num(1), max |-> Num(1)], orderIndex |-> orderIndex]

\* records of daily_athkar.json: one text in three categories, once under an
\* essential title; another text; an essential text twice; two texts that
\* agree on their first 100 characters only
DedupPool ==
    { DedupRecord("d1", "morning", 1, <<"t">>, <<"x">>),
      DedupRecord("d2", "evening", 1, <<"t">>, <<"x">>),
      DedupRecord("d3", "sleep", 1, essential_keywords[5], <<"x">>),
      DedupRecord("d4", "evening", 2, <<"t">>, <<"y">>),
      DedupRecord("d5", "evening", 3, <<"t">>, essential_keywords[1]),
      DedupRecord("d6", "morning", 2, <<"t">>, essential_keywords[1]),
      DedupRecord("d7", "sleep", 2, <<"t">>, HundredText \o <<"x">>),
      DedupRecord("d8", "waking", 1, <<"t">>, HundredText \o <<"y">>) }

InitDedup ==
    /\ dd_pc = "ready"
    /\ daily_file \in SeqsUpTo(DedupPool, MaxDaily)
    /\ dd_prev = <<>>
    /\ dd_runs = 0

\* one run: daily_athkar.json is read, deduplicated, sorted and written back
Deduplicate ==
    /\ dd_pc = "ready"
    /\ dd_runs < MaxDedupRuns
    /\ dd_prev' = daily_file
    /\ daily_file' = smart_deduplicate(daily_file)
    /\ dd_runs' = dd_runs + 1
    /\ UNCHANGED dd_pc
    /\ UNCHANGED <<ctVars, cmpVars, convVars, syncVars>>

-----------------------------------------------------------------------------
(* Specifications *)

InitClean ==
    /\ ct_pc = "input"
    /\ ct_a \in SeqsUpTo(CleanAlphabet, MaxTextLen)
    /\ ct_b = ct_a
    /\ ct_out = <<>>
    /\ CompareIdle /\ ConvertIdle /\ SyncIdle /\ DedupIdle

NextClean ==
    \/ EditInsertMarker
    \/ EditGrowRun
    \/ EditChangeSpace
    \/ ApplyCleanText

SpecClean == InitClean /\ [][NextClean]_vars

InitCmp == InitCompare /\ CleanIdle /\ ConvertIdle /\ SyncIdle /\ DedupIdle

NextCompare ==
    \/ CmpFetch
    \/ CmpItem
    \/ CmpNextCategory
    \/ CmpWriteReport

SpecCompare == InitCmp /\ [][NextCompare]_vars

InitConv == InitConvert /\ CleanIdle /\ CompareIdle /\ SyncIdle /\ DedupIdle

NextConvert ==
    \/ ConvCategory
    \/ ConvSplitItem
    \/ ConvItem
    \/ ConvNextCategory
    \/ ConvWrite

SpecConvert == InitConv /\ [][NextConvert]_vars

InitCls == InitClassify /\ CleanIdle /\ CompareIdle /\ SyncIdle /\ DedupIdle

NextClassify == ClsSplitItem

SpecClassify == InitCls /\ [][NextClassify]_vars

InitSy == InitSync /\ CleanIdle /\ CompareIdle /\ ConvertIdle /\ DedupIdle

NextSync ==
    \/ SyncFetchIndex
    \/ SyncCategory
    \/ SyncSave

SpecSync == InitSy /\ [][NextSync]_vars

InitDd == InitDedup /\ CleanIdle /\ CompareIdle /\ ConvertIdle /\ SyncIdle

NextDedup == Deduplicate

SpecDedup == InitDd /\ [][NextDedup]_vars

\* the two scripts that fetch from the API, run to their end
InitFetch == InitCmp \/ InitSy

NextFetch ==
    \/ NextCompare
    \/ NextSync

SpecFetch == InitFetch /\ [][NextFetch]_vars /\ WF_vars(NextFetch)

\* the three scripts that write a corpus, one of them run
InitCorpus == InitConv \/ InitSy \/ InitDd

NextCorpus ==
    \/ NextConvert
    \/ NextSync
    \/ NextDedup

SpecCorpus == InitCorpus /\ [][NextCorpus]_vars

-----------------------------------------------------------------------------
(* Claims *)

\* a cleaned text: no marker, single spaces only, none at either end
IsClean(text) ==
    /\ \A i \in 1..Len(text) : text[i] # Marker /\ text[i] # "\n"
    /\ \A i \in 1..(Len(text) - 1) : ~(text[i] = " " /\ text[i + 1] = " ")
    /\ text # <<>> => (text[1] # " " /\ text[Len(text)] # " ")

\* C4: clean_text strips every marker glyph, collapses whitespace runs to one
\* space and trims; two texts that differ only in whitespace runs or marker
\* glyphs clean to the same text; cleaning is idempotent; the copy in
\* sync_official_data.py returns the same result as the one in compare_api.py.
C4_CleanTextNormalises ==
    ct_pc = "done" =>
        /\ IsClean(ct_out.b)
        /\ ct_out.a = ct_out.b
        /\ ct_out.twice = ct_out.b
        /\ ct_out.sync = ct_out.b

\* a text holding a word, a marker and a doubled run was cleaned next to its
\* original
C4_Witness ==
    /\ ct_pc = "done"
    /\ ct_a # ct_b
    /\ \E i \in 1..Len(ct_b) : ct_b[i] = Marker
    /\ \E i \in 1..(Len(ct_b) - 1) : ct_b[i] \in Whitespace /\ ct_b[i + 1] \in Whitespace
    /\ ct_out.b # <<>>

\* the remote item compared last, once its comparison has completed
ItemDone == cmp_pc = "items" /\ r_idx >= 1
LastItem == remote_content.items[r_idx]
\* what that item added to the report
NewEntries == SubSeq(report_items, scan.n_before + 1, Len(report_items))
\* its ratio to the l-th local item
RatioTo(l) == ItemRatio(LastItem, local_all[l])
\* the local items whose ratio to it is above p hundredths
Above(p) == {l \in 1..Len(local_all) : FracGT(RatioTo(l), Frac(p, 100))}

\* the repeat counts as the claims read them: REPEAT, 1 when absent or empty
\* (-1 stands for no count at all), and repeat.max, 1 when absent
ClaimRemoteCount(v) ==
    CASE v.kind \in {"absent", "null"} -> 1
      [] v.kind = "int" -> v.num
      [] v.kind = "str" ->
            IF v.str = <<>> THEN 1
            ELSE IF PyInt(v).ok THEN PyInt(v).val ELSE -1
ClaimLocalCount(l_item) ==
    IF l_item.repeat_max.kind = "absent" THEN 1 ELSE l_item.repeat_max.num
\* the remote count as the code reads it: a REPEAT of 0 counts as 1 too
EffectiveRemoteCount(v) ==
    IF v = Num(0) THEN 1 ELSE ClaimRemoteCount(v)

\* C1: every compared remote item gets exactly one classification: Matched
\* iff some local item has ratio > 0.85; else Potential Mismatch iff the
\* largest ratio is > 0.50; else Missing.  An unmatched item adds exactly one
\* report entry, and a Potential Mismatch entry shows a local item of
\* largest ratio.
C1_Classification ==
    ItemDone =>
        /\ scan.found <=> Above(85) # {}
        /\ scan.found =>
              \A k \in 1..Len(NewEntries) :
                  NewEntries[k].status \notin {"Missing", "Potential Mismatch"}
        /\ ~scan.found =>
              /\ Len(NewEntries) = 1
              /\ NewEntries[1].status =
                    IF Above(50) # {} THEN "Potential Mismatch" ELSE "Missing"
        /\ (~scan.found /\ Above(50) # {}) =>
              /\ scan.best_match \in 1..Len(local_all)
              /\ \A l \in 1..Len(local_all) :
                    ~FracGT(RatioTo(l), RatioTo(scan.best_match))
              /\ NewEntries[1].local =
                    Prefix(CleanTable[local_all[scan.best_match].text], 200)
              /\ FracEQ(NewEntries[1].ratio, RatioTo(scan.best_match))

\* a Potential Mismatch whose best candidate is the second local item
C1_Witness ==
    /\ ItemDone
    /\ ~scan.found
    /\ NewEntries[1].status = "Potential Mismatch"
    /\ scan.best_match = 2

\* the local items whose cleaned text is that of the last remote item
\* and whose repeat count equals its count
Identical ==
    {l \in 1..Len(local_all) :
        /\ CleanTable[local_all[l].text] = CleanTable[LastItem.ARABIC_TEXT]
        /\ ClaimRemoteCount(LastItem.REPEAT) = ClaimLocalCount(local_all[l])}

C3_Post(r_item, sc, new) ==
    LET over == {l \in 1..Len(local_all) :
                    FracGT(ItemRatio(r_item, local_all[l]), Frac(85, 100))}
    IN sc.found =>
         /\ sc.l_idx = Min(over)
         /\ Len(new) <= 1
         /\ new # <<>> <=>
               EffectiveRemoteCount(r_item.REPEAT) # ClaimLocalCount(local_all[sc.l_idx])
         /\ \A k \in 1..Len(new) :
               /\ new[k].status = "Repeat Mismatch"
               /\ new[k].r_rep = EffectiveRemoteCount(r_item.REPEAT)
               /\ new[k].l_rep = ClaimLocalCount(local_all[sc.l_idx])

-----------------------------------------------------------------------------
(* convert_adhkar.main: C5 to C8 *)

\* the source category at hand and the records a step appends
ConvCat == source_data[conv_cat]
Added == SubSeq(all_athkar', Len(all_athkar) + 1, Len(all_athkar'))
\* a step that passes over one raw item of the category at hand
ConvItemStep ==
    /\ conv_pc \in {"items", "split"}
    /\ conv_cat' = conv_cat
    /\ conv_item' = conv_item + 1

\* the count the claims give a raw item: its count, 1 when absent
ClaimCount(item) == IF item.count = Absent THEN Num(1) ELSE item.count

\* what C5 says of the one record rec made from item number pos (1-based) of
\* a source category with a mapped id other than 1
C5_Record(cat, pos, rec) ==
    /\ cat.id \in DOMAIN CATEGORY_MAP
    /\ rec.source = CATEGORY_MAP[cat.id][1]
    /\ rec.category = CATEGORY_MAP[cat.id][2]
    /\ rec.hisnCategory = CATEGORY_MAP[cat.id][3]
    /\ rec.text = cat.array[pos].text
    /\ rec.repeat.min = ClaimCount(cat.array[pos])
    /\ rec.repeat.max = ClaimCount(cat.array[pos])
    /\ rec.orderIndex = pos

\* C5: every raw item of a source category with a mapped id other than 1
\* yields exactly one record, in source order, carrying the mapping's source,
\* category and hisnCategory, repeat.min = repeat.max = count (1 when absent)
\* and orderIndex = its 1-based position; every raw item of category 1 yields
\* one or two records.  Stated on the steps of a run: records are only ever
\* appended, and only by the step that passes over an item; items are passed
\* over one at a time from the first; a mapped category is left only when all
\* its items are done; and the file written is the list so built.
C5_ConvertTotal ==
    [][ /\ Len(all_athkar') >= Len(all_athkar)
        /\ SubSeq(all_athkar', 1, Len(all_athkar)) = all_athkar
        /\ source_data' = source_data
        /\ Added # <<>> => ConvItemStep
        /\ conv_item' # conv_item =>
              \/ ConvItemStep
              \/ conv_pc = "cat" /\ conv_item' = 0 /\ conv_cat' = conv_cat
        /\ ConvItemStep =>
              /\ conv_item < Len(ConvCat.array)
              /\ IF ConvCat.id = 1
                 THEN Len(Added) \in {1, 2}
                 ELSE /\ Len(Added) = 1
                      /\ C5_Record(ConvCat, conv_item + 1, Added[1])
        /\ conv_cat' # conv_cat =>
              /\ conv_cat' = conv_cat + 1
              /\ ConvCat.id \in DOMAIN CATEGORY_MAP =>
                    /\ conv_pc \in {"items", "split"}
                    /\ conv_item = Len(ConvCat.array)
        /\ (conv_pc = "cat" /\ conv_pc' # "cat" /\ conv_cat <= Len(source_data)) =>
              /\ ConvCat.id \in DOMAIN CATEGORY_MAP
              /\ conv_item' = 0
        /\ conv_file' # conv_file =>
              /\ conv_cat > Len(source_data)
              /\ conv_file' = [written |-> TRUE, items |-> all_athkar]
      ]_vars

\* the spec's scenario: source category 5 with three raw items, all converted
C5_Witness ==
    /\ conv_pc = "items"
    /\ ConvCat.id = 5
    /\ conv_item = 3
    /\ Len(all_athkar) = 3
    /\ \A k \in 1..3 : /\ all_athkar[k].orderIndex = k
                       /\ all_athkar[k].category = "hisn"
                       /\ all_athkar[k].hisnCategory = "home"

\* the conversion of a whole source document, category by category
RECURSIVE SplitAll(_, _, _)
SplitAll(array, k, st) ==
    IF k > Len(array) THEN st
    ELSE SplitAll(array, k + 1,
            LET s == SplitEntries(array[k], classify_morning_evening(array[k].text), 1,
                                  [st EXCEPT !.entries = <<>>])
            IN [s EXCEPT !.entries = st.entries \o s.entries])

ConvertCategory(cat) ==
    IF ~Lookup(cat.id).known THEN <<>>
    ELSE IF cat.id = 1
    THEN SplitAll(cat.array, 1, [entries |-> <<>>, morning_index |-> 0,
                                 evening_index |-> 0]).entries
    ELSE [k \in 1..Len(cat.array) |->
             convert_item(cat.id, cat.category, cat.array[k], k - 1,
                          Lookup(cat.id).mapping[2], Lookup(cat.id).mapping[3],
                          Lookup(cat.id).mapping[1])]

RECURSIVE Convert(_)
Convert(data) ==
    IF data = <<>> THEN <<>>
    ELSE ConvertCategory(Head(data)) \o Convert(Tail(data))

\* the source document without the categories whose id is no key of
\* CATEGORY_MAP
IsMapped(cat) == cat.id \in DOMAIN CATEGORY_MAP
WithoutUnknown(data) == SelectSeq(data, IsMapped)

\* C6: a source category whose id is not a key of CATEGORY_MAP contributes
\* no record, the run goes on to its end, and what is written is exactly the
\* conversion of the source document with the unknown categories removed.
C6_UnknownSkipped ==
    /\ (conv_pc = "cat" /\ conv_cat <= Len(source_data) /\ ~IsMapped(ConvCat)) =>
          /\ ENABLED (ConvCategory /\ all_athkar' = all_athkar
                                   /\ conv_cat' = conv_cat + 1 /\ conv_pc' = "cat")
          /\ all_athkar =
                Convert(WithoutUnknown(SubSeq(source_data, 1, conv_cat - 1)))
    /\ conv_pc \in {"items", "split"} => IsMapped(ConvCat)
    /\ conv_pc = "done" =>
          /\ conv_file.written
          /\ conv_file.items = Convert(WithoutUnknown(source_data))

\* an unknown category between two mapped ones, the run complete
C6_Witness ==
    /\ conv_pc = "done"
    /\ Len(source_data) = 3
    /\ IsMapped(source_data[1])
    /\ ~IsMapped(source_data[2])
    /\ IsMapped(source_data[3])
    /\ Len(conv_file.items) >= 2

\* the text contains a morning keyword / an evening keyword
HasMorning(text) ==
    \E k \in 1..Len(MORNING_KEYWORDS) : Contains(text, MORNING_KEYWORDS[k])
HasEvening(text) ==
    \E k \in 1..Len(EVENING_KEYWORDS) : Contains(text, EVENING_KEYWORDS[k])

\* C7: classify_morning_evening returns a non-empty subset of {morning,
\* evening} without repeats: only morning iff the text has a morning keyword
\* and no evening keyword, only evening iff it has an evening keyword and no
\* morning keyword, both iff it has keywords of both sets or of neither; the
\* item of category 1 is emitted once under each tag returned, so under at
\* least one.
C7_ClassifyExhaustive ==
    cls_pc = "done" =>
        LET r    == classify_morning_evening(cls_text)
            tags == {r[k] : k \in 1..Len(r)}
            m    == HasMorning(cls_text)
            e    == HasEvening(cls_text)
        IN /\ tags # {}
           /\ tags \subseteq {"morning", "evening"}
           /\ Len(r) = Cardinality(tags)
           /\ tags = {"morning"} <=> (m /\ ~e)
           /\ tags = {"evening"} <=> (e /\ ~m)
           /\ tags = {"morning", "evening"} <=> ((m /\ e) \/ (~m /\ ~e))
           /\ Len(cls_out) = Len(r)
           /\ \A k \in 1..Len(r) : cls_out[k].category = r[k]

\* a text with keywords of both sets, emitted under both tags
C7_Witness ==
    /\ cls_pc = "done"
    /\ HasMorning(cls_text)
    /\ HasEvening(cls_text)
    /\ {cls_out[k].category : k \in 1..Len(cls_out)} = {"morning", "evening"}

IsMorning(rec) == rec.category = "morning"
IsEvening(rec) == rec.category = "evening"
\* the records of the category-1 block at hand, after the step
SplitBlock == SubSeq(all_athkar', conv_base + 1, Len(all_athkar'))

\* C8: in the category-1 split, the two records of an ambiguous item share
\* text and repeat and carry distinct ids, suffixed -m and -e; after every
\* item the morning records of the block carry orderIndex 1..M and the
\* evening records 1..E, in emission order.
C8_SplitIndependent ==
    [][ (conv_pc = "split" /\ conv_item' = conv_item + 1) =>
          LET item    == ConvCat.array[conv_item + 1]
              base    == "adhkar-1-" \o Format03d(item.id - 1)
              morning == SelectSeq(SplitBlock, IsMorning)
              evening == SelectSeq(SplitBlock, IsEvening)
          IN /\ (HasMorning(item.text) <=> HasEvening(item.text)) =>
                   /\ Len(Added) = 2
                   /\ Added[1].text = item.text
                   /\ Added[2].text = item.text
                   /\ Added[1].repeat = Added[2].repeat
                   /\ Added[1].category = "morning"
                   /\ Added[2].category = "evening"
                   /\ Added[1].id = base \o "-m"
                   /\ Added[2].id = base \o "-e"
                   /\ Added[1].id # Added[2].id
             /\ Len(morning) + Len(evening) = Len(SplitBlock)
             /\ \A k \in 1..Len(morning) : morning[k].orderIndex = k
             /\ \A k \in 1..Len(evening) : evening[k].orderIndex = k
             /\ morning_index' = Len(morning)
             /\ evening_index' = Len(evening)
      ]_vars

\* three items of category 1 done: two morning and two evening records
C8_Witness ==
    /\ conv_pc = "split"
    /\ conv_item = 3
    /\ morning_index = 2
    /\ evening_index = 2
    /\ Len(all_athkar) = conv_base + 4

-----------------------------------------------------------------------------
(* The written collections: C9 and C10 *)

\* no two records of the list share an id
IdsUnique(recs) ==
    \A i, j \in 1..Len(recs) : i # j => recs[i].id # recs[j].id

\* C9: no two records of the collection written by convert_adhkar.main share
\* an id, and no two records among those written by run_sync (daily and hisn
\* outputs together) share an id, whatever the input.
C9_IdsUnique ==
    /\ conv_file.written => IdsUnique(conv_file.items)
    /\ sync_files.written => IdsUnique(sync_files.daily \o sync_files.duas)

\* the orderIndex values of the records of one category are pairwise distinct
\* and are exactly 1..n, n the number of records of that category
OrderContiguous(recs) ==
    \A c \in {recs[k].category : k \in 1..Len(recs)} :
        LET members == {k \in 1..Len(recs) : recs[k].category = c}
        IN /\ \A i, j \in members : i # j => recs[i].orderIndex # recs[j].orderIndex
           /\ {recs[k].orderIndex : k \in members} = 1..Cardinality(members)

\* C10: in the collection written by convert_adhkar.main, by run_sync and by
\* smart_deduplicate (run on a collection that has the property), the
\* orderIndex values of the records of one category are pairwise distinct and
\* form exactly 1..n.
C10_OrderContiguous ==
    /\ conv_file.written => OrderContiguous(conv_file.items)
    /\ sync_files.written => OrderContiguous(sync_files.daily \o sync_files.duas)
    /\ (dd_runs >= 1 /\ OrderContiguous(dd_prev)) => OrderContiguous(daily_file)

-----------------------------------------------------------------------------
(* Repeat counts: C11, C12 *)

\* repeat.min <= repeat.max, both integers of at least 1
RepeatValid(rec) ==
    /\ rec.repeat.min.kind = "int"
    /\ rec.repeat.max.kind = "int"
    /\ 1 <= rec.repeat.min.num
    /\ rec.repeat.min.num <= rec.repeat.max.num

AllRepeatsValid(recs) == \A k \in 1..Len(recs) : RepeatValid(recs[k])

\* C11: every record written by main (convert_adhkar.py) and by run_sync has
\* repeat.min <= repeat.max with both values at least 1, whatever the count /
\* REPEAT field of the source item is (0, a negative number, absent)
C11_RepeatPositive ==
    /\ conv_file.written => AllRepeatsValid(conv_file.items)
    /\ sync_files.written => AllRepeatsValid(sync_files.daily \o sync_files.duas)

\* a count as C12 reads it: the integer it denotes, 1 when it is missing or
\* denotes none
CountOrOne(v) == IF PyInt(v).ok THEN Num(PyInt(v).val) ELSE Num(1)

\* the source document with every count read that way
WithCountsRead(data) ==
    [c \in 1..Len(data) |->
        [data[c] EXCEPT !.array =
            [k \in 1..Len(data[c].array) |->
                [data[c].array[k] EXCEPT !.count = CountOrOne(@)]]]]

\* C12: a missing or unparseable count / REPEAT field is read as 1 and ends
\* no run: run_comparison never stops on int(), main writes the records of
\* the source with every such count replaced by 1, and run_sync writes
\* integer counts only
C12_MalformedCountIsOne ==
    /\ cmp_pc # "raised"
    /\ conv_file.written => conv_file.items = Convert(WithCountsRead(source_data))
    /\ sync_files.written =>
          \A k \in 1..Len(sync_files.daily \o sync_files.duas) :
              LET rec == (sync_files.daily \o sync_files.duas)[k]
              IN rec.repeat.min.kind = "int" /\ rec.repeat.max = rec.repeat.min

-----------------------------------------------------------------------------
(* Duplicate reconciliation: C13, C14, C15 *)

\* how often rec occurs in recs
Occ(recs, rec) == Cardinality({k \in 1..Len(recs) : recs[k] = rec})

\* the records of recs that share the first 100 characters of rec's text
SameKey(recs, rec) ==
    SelectSeq(recs, LAMBDA r : Prefix(r.text, 100) = Prefix(rec.text, 100))

\* rec's title or text contains an essential keyword
Marked(rec) ==
    \E k \in 1..Len(essential_keywords) :
        Contains(rec.title, essential_keywords[k]) \/
        Contains(rec.text, essential_keywords[k])

AnyMarked(recs) == \E k \in 1..Len(recs) : Marked(recs[k])

\* C13: when any member of a group of two or more records (not only the
\* first one met) has an essential keyword in its title or text, a run of
\* smart_deduplicate retains every member of the group, unmodified
C13_EssentialGroupKept ==
    dd_runs >= 1 =>
        \A i \in 1..Len(dd_prev) :
            LET g == SameKey(dd_prev, dd_prev[i])
            IN (Len(g) >= 2 /\ AnyMarked(g)) =>
                  Occ(daily_file, dd_prev[i]) = Occ(dd_prev, dd_prev[i])

\* the member C14 names: the first one of category morning, else the first
Preferred(g) ==
    LET mornings == {k \in 1..Len(g) : g[k].category = "morning"}
    IN IF mornings = {} THEN g[1]
       ELSE g[CHOOSE k \in mornings : \A j \in mornings : k <= j]

\* C14: a run of smart_deduplicate passes a singleton group through
\* unchanged, and of a group of two or more records none of which is
\* essential it leaves exactly one, unmodified: the first member of category
\* morning if there is one, else the first member
C14_OneSurvivor ==
    dd_runs >= 1 =>
        \A i \in 1..Len(dd_prev) :
            LET g   == SameKey(dd_prev, dd_prev[i])
                out == SameKey(daily_file, dd_prev[i])
            IN /\ Len(g) = 1 => out = g
               /\ (Len(g) >= 2 /\ ~AnyMarked(g)) => out = <<Preferred(g)>>

\* a singleton, and a group without keyword whose morning member is not its
\* first, have been through a run
C14_Witness ==
    /\ dd_runs = 1
    /\ \E i \in 1..Len(dd_prev) : Len(SameKey(dd_prev, dd_prev[i])) = 1
    /\ \E i \in 1..Len(dd_prev) :
          LET g == SameKey(dd_prev, dd_prev[i])
          IN /\ Len(g) >= 2 /\ ~AnyMarked(g)
             /\ g[1].category # "morning"
             /\ Preferred(g).category = "morning"
             /\ SameKey(daily_file, dd_prev[i]) = <<Preferred(g)>>

\* C15: smart_deduplicate is idempotent: a second run on the list the first
\* run wrote writes the same list, the same records in the same order
C15_Idempotent ==
    dd_runs >= 2 => daily_file = dd_prev

-----------------------------------------------------------------------------
(* Fetch failures: C16 *)

\* a step in which fetch_json returns None for a category of run_comparison:
\* nothing is reported and the next category is at hand
CmpFetchFailed ==
    (cmp_pc = "fetch" /\ cmp_cat <= Len(mappings) /\ remote_content' = NoContent) =>
        /\ report_items' = report_items
        /\ report_file' = report_file
        /\ cmp_pc' = "fetch"
        /\ cmp_cat' = cmp_cat + 1

\* the same for a category of run_sync: no record and no hisn category
SyncFetchFailed ==
    (sync_pc = "cat" /\ sync_cat' # sync_cat /\ sync_content' = NoContent) =>
        /\ final_daily' = final_daily
        /\ final_hisn_duas' = final_hisn_duas
        /\ final_hisn_categories' = final_hisn_categories
        /\ sync_files' = sync_files
        /\ sync_pc' = "cat"
        /\ sync_cat' = sync_cat + 1

\* run_sync ends early only at the fetch of the index
SyncAbortAtIndex == sync_pc' = "aborted" => sync_pc \in {"index", "aborted"}

\* the run has ended with its output written, or run_sync ended at the index
\* with nothing written
RunEnded ==
    \/ cmp_pc = "done" /\ report_file.written
    \/ sync_pc = "done" /\ sync_files.written
    \/ sync_pc = "aborted" /\ ~sync_files.written

\* the fetch of the category before the one at hand has just failed
SkippedCategory ==
    \/ cmp_pc = "fetch" /\ cmp_cat > 1 /\ remote_content = NoContent
    \/ sync_pc = "cat" /\ sync_cat > 1 /\ sync_content = NoContent

\* C16: a category whose fetch fails adds no report entry, no record and no
\* hisn category, the run goes on with the remaining categories and writes
\* its output at the end; only a failed fetch of the index ends run_sync,
\* and then no file is written
C16_FetchFailureSkips ==
    /\ [][CmpFetchFailed /\ SyncFetchFailed /\ SyncAbortAtIndex]_vars
    /\ SkippedCategory ~> RunEnded
    /\ (sync_pc = "index") ~> RunEnded

-----------------------------------------------------------------------------
(* The split of remote category 27: C17 *)

\* the ids and categories C17 gives the records of the items of category 27
\* from index idx on: both categories unless the cleaned text has keywords
\* of exactly one kind
RECURSIVE SplitPolicy(_, _)
SplitPolicy(items, idx) ==
    IF idx >= Len(items) THEN <<>>
    ELSE LET text == clean_text_sync(items[idx + 1].ARABIC_TEXT)
             m    == AnyIn(SyncMorningWords, text)
             e    == AnyIn(SyncEveningWords, text)
             id   == SyncId(27, idx)
         IN (IF m /\ ~e THEN << <<id, "morning">> >>
             ELSE IF e /\ ~m THEN << <<id, "evening">> >>
             ELSE << <<id \o "-m", "morning">>, <<id \o "-e", "evening">> >>)
            \o SplitPolicy(items, idx + 1)

\* run_sync has just processed the fetched document of category 27
SplitStep ==
    /\ sync_pc = "cat"
    /\ sync_cat' = sync_cat + 1
    /\ categories[sync_cat].ID = 27
    /\ sync_content'.ok

\* C17: every item of remote category 27 is emitted into morning or evening,
\* into both (ids suffixed -m and -e) when its text has a morning and an
\* evening keyword or neither, and as a single record only when it has
\* keywords of exactly one kind
C17_SyncSplitConservative ==
    [][SplitStep =>
          LET new == SubSeq(final_daily', Len(final_daily) + 1, Len(final_daily'))
          IN [k \in 1..Len(new) |-> <<new[k].id, new[k].category>>]
                = SplitPolicy(sync_content'.items, 0)]_vars

-----------------------------------------------------------------------------
(* The categories of hisn.json: C18 *)

\* generate_revision_html.py:15, 81: the entries of the categories list that
\* hisn_cats is built from and that carry the dua's category as their id
CategoryEntries(hisn_data, dua) ==
    {j \in 1..Len(hisn_data.categories) :
        hisn_data.categories[j].id = dua.category}

\* C18: in the hisn.json run_sync writes, the category of every dua is the
\* id of exactly one entry of the categories list
C18_DuaCategoryResolves ==
    sync_files.written =>
        \A k \in 1..Len(sync_files.duas) :
            Cardinality(CategoryEntries(sync_files, sync_files.duas[k])) = 1
====
